---- MODULE Spec2Model ----
(***************************************************************************)
(* Real-time session orchestration of the conversation coach backend:      *)
(* the session registry (app/services/session_manager.py), the Session     *)
(* object (app/models/session.py) and the three routes of                  *)
(* app/api/routes.py: create_session, websocket_handler (the ingestion     *)
(* loop and the background task process_audio_and_generate_suggestions)    *)
(* and finish_session.                                                     *)
(*                                                                         *)
(* The routes are asyncio coroutines on one event loop: code between two   *)
(* awaits runs without interleaving, so one action of the model is the     *)
(* code from one await to the next.  The calls on ai_service are           *)
(* synchronous: the task that makes one keeps the event loop until the     *)
(* call returns.  capability_call is the start of such a call; while it    *)
(* lasts only the clock moves, and the step of the task that contains the  *)
(* call is taken when the call returns.  The results of the calls, the     *)
(* frames the client sends and the success of a send on the websocket are  *)
(* inputs, drawn from small sets.                                          *)
(*                                                                         *)
(* Audio bytes are kept as runs: a received frame is a record              *)
(* [id, len] (id: its arrival number, len: its number of bytes), and a     *)
(* bytes value is the sequence of the frames concatenated into it.         *)
(* A transcript entry is kept without its timestamp, which no code of the  *)
(* routes reads back; so is the timestamp of an outbound frame.            *)
(***************************************************************************)
EXTENDS Integers, Sequences, FiniteSets, TLC

\* ---------------------------------------------------------------- bounds
MaxSessions == 2      \* session identifiers the registry can hand out
MaxConns == 2         \* streaming connections opened in one run
SoloFrames == 2       \* audio frames received in a run with one connection
SoloTime == 8         \* the clock's last second in a run with one connection
SoloFinish == 1       \* finalize calls in a run with one connection
LongFrames == 3       \* audio frames received in a longer run
LongTime == 11        \* the clock's last second in a longer run
DuoFrames == 2        \* audio frames received in a run with several connections
DuoTime == 8          \* the clock's last second in a run with several connections
DuoFinish == 1        \* finalize calls in a run with several connections
MaxRegistryIds == 3   \* identifiers in a run of the registry alone
MaxHistory == 7       \* history entries of a session with a long conversation

\* ------------------------------------------------------ program constants
PollPeriod == 3             \* asyncio.sleep(3)
BufferThreshold == 32000    \* 16000 * 2
SuggestionGap == 8          \* time_since_last >= 8
MinHistory == 2             \* len(conversation_history) >= 2
HistoryWindow == 6          \* conversation_history[-6:]
SecondsPerDay == 86400      \* timedelta.seconds is the remainder within a day
NotFoundCloseCode == 4004   \* websocket.close(code=4004)

SessionIds == 1..MaxSessions
Conns == 1..MaxConns
FrameSizes == {16000, 32001}
Texts == {"Hi I am Ana"}
Suggestions == {"Slow down"}
HistoryTexts == {"Hi I am Ana", "um so"}
\* the identifiers of a run of the registry alone, and all identifiers
RegistryIds == 1..MaxRegistryIds
AllIds == 1..(MaxSessions + MaxRegistryIds + 1)
\* Python's None
None == [none |-> TRUE]
\* no finalize call has been answered yet
NoResponse == [sid |-> MaxSessions + 1, status |-> 0]
\* an identifier no session has
UnknownId == MaxSessions + 1
\* no task is inside a call of ai_service: the event loop is free
NotBlocked == [c |-> 0, call |-> "none"]
\* the value of `last` after a step that is no step of a task
NoStep == [c |-> 0, did |-> "none"]

VARIABLES
    now,          \* datetime.utcnow(), in whole seconds
    sessions,     \* SessionManager._sessions: identifier -> Session
    conn,         \* per connection: the handler and its background task
    out,          \* per connection: the frames sent on the websocket, in order
    closeCode,    \* per connection: the code of websocket.close(), 0 if none
    received,     \* per session: the audio frames received, in arrival order
    detached,     \* per session: the bytes handed to transcription, in order
    nFrames,      \* audio frames received so far, over all connections
    nTranscribe,  \* per session: calls of ai_service.transcribe_audio
    nSuggest,     \* per session: calls of ai_service.generate_coaching_suggestion
    lastGen,      \* per session: time of the latest suggestion generated, -1 if none
    lastContext,  \* per session: the history entries the latest generation used
    nAnalyze,     \* calls of the external analysis model
    analyzed,     \* the transcript block of the latest call of that model
    nFinish,      \* finalize calls so far
    response,     \* the outcome of the latest finalize call
    idState,      \* per identifier: "unused", "held" by a session or "deleted"
    lookup,       \* the latest call of get_session and what it returned
    blocked,      \* the task that is inside a synchronous call of ai_service
    last          \* what the latest step did, when it was a step of a task,
                  \* a message of an ingestion loop or a finalize call

vars == <<now, sessions, conn, out, closeCode, received, detached, nFrames,
          nTranscribe, nSuggest, lastGen, lastContext, nAnalyze, analyzed,
          nFinish, response, idState, lookup, blocked, last>>

\* ------------------------------------------------------------- helpers
RECURSIVE ByteLen(_)
\* len() of a bytes value
ByteLen(b) == IF b = <<>> THEN 0 ELSE Head(b).len + ByteLen(Tail(b))

Min(a, b) == IF a < b THEN a ELSE b

\* seq[:n] for seq[-n:]
LastN_FirstN(seq, n) == SubSeq(seq, 1, Min(n, Len(seq)))

\* seq[-n:]
LastN(seq, n) == SubSeq(seq, Len(seq) - Min(n, Len(seq)) + 1, Len(seq))

\* (a - b).seconds for datetimes a, b
TimedeltaSeconds(a, b) == (a - b) % SecondsPerDay

\* Session.__init__
NewSession(sid) ==
              [ session_id |-> sid,
                transcript |-> <<>>,
                audio_buffer |-> <<>>,
                last_suggestion_time |-> now,
                conversation_history |-> <<>>,
                active |-> FALSE ]

\* the entry put at the head of the list
add_transcript_entry_Prepends(transcript, speaker, text) ==
    <<[speaker |-> speaker, text |-> text]>> \o transcript

\* Session.add_transcript_entry: the transcript with the new entry appended
add_transcript_entry(transcript, speaker, text) ==
    Append(transcript, [speaker |-> speaker, text |-> text])

\* SessionManager.session_exists
session_exists(sid) == sid \in DOMAIN sessions

\* a connection that has not been opened, and a task that does not exist
IdleConn == [ hpc |-> "idle", sid |-> 0, tpc |-> "none", wakeAt |-> 0,
              user_text |-> "", suggestion |-> "" ]

Init ==
    /\ now = 0
    /\ sessions = << >>
    /\ conn = [c \in Conns |-> IdleConn]
    /\ out = [c \in Conns |-> <<>>]
    /\ closeCode = [c \in Conns |-> 0]
    /\ received = [s \in SessionIds |-> <<>>]
    /\ detached = [s \in SessionIds |-> <<>>]
    /\ nFrames = 0
    /\ nTranscribe = [s \in SessionIds |-> 0]
    /\ nSuggest = [s \in SessionIds |-> 0]
    /\ lastGen = [s \in SessionIds |-> -1]
    /\ lastContext = [s \in SessionIds |-> <<>>]
    /\ nAnalyze = 0
    /\ analyzed = <<>>
    /\ nFinish = 0
    /\ response = NoResponse
    /\ idState = [sid \in AllIds |-> "unused"]
    /\ lookup = [sid |-> 0, result |-> None]
    /\ blocked = NotBlocked
    /\ last = NoStep

\* the clock; it is counted from the creation of the first session (the
\* code reads it only in sessions, and only as differences)
Tick ==
    /\ DOMAIN sessions # {}
    /\ now' = now + 1
    /\ last' = NoStep
    /\ UNCHANGED <<sessions, conn, out, closeCode, received, detached, nFrames,
                   nTranscribe, nSuggest, lastGen, lastContext, nAnalyze,
                   analyzed, nFinish, response, idState, lookup, blocked>>

\* routes.create_session / SessionManager.create_session: sid is the
\* identifier uuid4 gives, one that it has not given before
create_session(sid) ==
    /\ blocked = NotBlocked
    /\ idState[sid] = "unused"
    /\ ~session_exists(sid)
    /\ sessions' = sessions @@ (sid :> NewSession(sid))
    /\ idState' = [idState EXCEPT ![sid] = "held"]
    /\ last' = NoStep
    /\ UNCHANGED <<now, conn, out, closeCode, received, detached, nFrames,
                   nTranscribe, nSuggest, lastGen, lastContext, nAnalyze,
                   analyzed, nFinish, response, lookup, blocked>>

\* SessionManager.get_session: self._sessions.get(session_id)
get_session(sid) == IF sid \in DOMAIN sessions THEN sessions[sid] ELSE None

\* a call of get_session, whose result is kept in `lookup`
lookup_session(sid) ==
    /\ blocked = NotBlocked
    /\ lookup' = [sid |-> sid, result |-> get_session(sid)]
    /\ last' = NoStep
    /\ UNCHANGED <<now, sessions, conn, out, closeCode, received, detached,
                   nFrames, nTranscribe, nSuggest, lastGen, lastContext,
                   nAnalyze, analyzed, nFinish, response, idState, blocked>>

\* a delete that empties the registry
DeleteEntry_DropsAll(registry, sid) == << >>

\* del self._sessions[session_id]
DeleteEntry(registry, sid) ==
    [k \in DOMAIN registry \ {sid} |-> registry[k]]

\* SessionManager.delete_session: nothing happens for an identifier that
\* is not held
delete_session(sid) ==
    /\ blocked = NotBlocked
    /\ IF session_exists(sid)
       THEN /\ sessions' = DeleteEntry(sessions, sid)
            /\ idState' = [idState EXCEPT ![sid] = "deleted"]
       ELSE UNCHANGED <<sessions, idState>>
    /\ last' = NoStep
    /\ UNCHANGED <<now, conn, out, closeCode, received, detached, nFrames,
                   nTranscribe, nSuggest, lastGen, lastContext, nAnalyze,
                   analyzed, nFinish, response, lookup, blocked>>

\* the close with the code of a normal closure
CloseNotFound_NormalCode(codes, c) == [codes EXCEPT ![c] = 1000]

\* await websocket.close(code=4004, reason="Session not found")
CloseNotFound(codes, c) == [codes EXCEPT ![c] = NotFoundCloseCode]

\* routes.websocket_handler, lines 26-30: an unknown identifier closes the
\* connection with 4004; otherwise the handler awaits websocket.accept().
\* conn[c].sid is the identifier in the path of the request.
ws_connect(c, sid) ==
    /\ blocked = NotBlocked
    /\ conn[c].hpc = "idle"
    /\ \A d \in Conns : d < c => conn[d].hpc # "idle"   \* numbered as opened
    /\ IF ~session_exists(sid)
       THEN /\ closeCode' = CloseNotFound(closeCode, c)
            /\ conn' = [conn EXCEPT ![c].hpc = "returned", ![c].sid = sid]
       ELSE /\ conn' = [conn EXCEPT ![c].hpc = "accepting", ![c].sid = sid]
            /\ UNCHANGED closeCode
    /\ last' = NoStep
    /\ UNCHANGED <<now, sessions, out, received, detached, nFrames, nTranscribe,
                   nSuggest, lastGen, lastContext, nAnalyze, analyzed,
                   nFinish, response, idState, lookup, blocked>>

\* routes.websocket_handler, lines 31-32 and 116-122: after accept() the
\* session is activated, the background task is created and the ingestion
\* loop is entered (session.active was just set, so its test passes) and
\* awaits the first message
ws_accepted(c) ==
    /\ blocked = NotBlocked
    /\ conn[c].hpc = "accepting"
    /\ sessions' = [sessions EXCEPT ![conn[c].sid].active = TRUE]
    /\ conn' = [conn EXCEPT ![c].hpc = "receive", ![c].tpc = "created"]
    /\ last' = NoStep
    /\ UNCHANGED <<now, out, closeCode, received, detached, nFrames, nTranscribe,
                   nSuggest, lastGen, lastContext, nAnalyze, analyzed,
                   nFinish, response, idState, lookup, blocked>>

\* the buffer assigned instead of extended (= for +=)
AppendAudio_Overwrites(buffer, data) == data

\* session.audio_buffer += data["bytes"]
AppendAudio(buffer, data) == buffer \o data

\* processing_task.cancel(): a task that has not finished is cancelled at
\* the await it is suspended in (CancelledError is not an Exception, so
\* neither except clause of the task catches it)
CancelTask(tpc) == IF tpc = "done" THEN tpc ELSE "cancelled"

\* the messages websocket.receive() can deliver to the ingestion loop:
\*   bytes       an audio frame
\*   stop        a text frame {"type": "stop"}
\*   other       a text frame that is a JSON object of another type
\*   malformed   a text frame json.loads or message.get fails on
\*   disconnect  WebSocketDisconnect is raised
\*   error       any other exception is raised (receive() called again
\*               after it returned the client's disconnect message)
MessageKinds == {"bytes", "stop", "other", "malformed", "disconnect", "error"}

\* routes.websocket_handler, lines 144-146 and 152-153: leaving the loop
HandlerCleanup(c) ==
    /\ conn' = [conn EXCEPT ![c].hpc = "returned",
                            ![c].tpc = CancelTask(conn[c].tpc)]

\* routes.websocket_handler, lines 148-153: an exception leaves the try
\* block before the cleanup, so the task is not cancelled
HandlerException(c) ==
    /\ conn' = [conn EXCEPT ![c].hpc = "returned"]

\* a handler without its finally clause
HandlerFinally_Missing(registry, sid) == registry

\* routes.websocket_handler, lines 152-153: `finally: session.active = False`
HandlerFinally(registry, sid) == [registry EXCEPT ![sid].active = FALSE]

\* the well-formed control messages
ControlKinds == {"stop", "other"}

\* a control message of any type taken for a stop
StopRequested_AnyType(kind) == TRUE

\* message.get("type") == "stop"
StopRequested(kind) == kind = "stop"

\* the record of a control message taken by the ingestion loop of connection c
Received(c, kind) == [c |-> 0, did |-> "received", kind |-> kind, h |-> c]

\* routes.websocket_handler, lines 120-153: one message of the ingestion
\* loop, up to the next await of websocket.receive() or to the return
ws_receive(c, kind, size) ==
    LET sid == conn[c].sid
        frame == <<[id |-> nFrames + 1, len |-> size]>>
    IN
    /\ blocked = NotBlocked
    /\ conn[c].hpc = "receive"
    /\ kind # "bytes" => size = 16000
    /\ CASE kind = "bytes" ->
              /\ received' = [received EXCEPT ![sid] = @ \o frame]
              /\ nFrames' = nFrames + 1
              /\ IF sessions[sid].active
                 THEN /\ sessions' = [sessions EXCEPT ![sid].audio_buffer =
                                          AppendAudio(@, frame)]
                      /\ UNCHANGED conn
                 ELSE /\ sessions' = [sessions EXCEPT ![sid].audio_buffer =
                                          AppendAudio(@, frame)]
                      /\ HandlerCleanup(c)
         [] kind \in ControlKinds /\ ~StopRequested(kind) ->
              /\ UNCHANGED <<received, nFrames, sessions>>
              /\ IF sessions[sid].active
                 THEN UNCHANGED conn
                 ELSE HandlerCleanup(c)
         [] (kind \in ControlKinds /\ StopRequested(kind)) \/ kind = "disconnect" ->
              /\ UNCHANGED <<received, nFrames>>
              /\ sessions' = [sessions EXCEPT ![sid].active = FALSE]
              /\ HandlerCleanup(c)
         [] kind \in {"malformed", "error"} ->
              /\ UNCHANGED <<received, nFrames>>
              /\ sessions' = HandlerFinally(sessions, sid)
              /\ HandlerException(c)
    /\ last' = IF kind \in ControlKinds THEN Received(c, kind) ELSE NoStep
    /\ UNCHANGED <<now, out, closeCode, detached, nTranscribe, nSuggest,
                   lastGen, lastContext, nAnalyze, analyzed,
                   nFinish, response, idState, lookup, blocked>>

\* the threshold test with >= for >
BufferReady_AtThreshold(buffer) == ByteLen(buffer) >= BufferThreshold

\* len(session.audio_buffer) > 16000 * 2
BufferReady(buffer) == ByteLen(buffer) > BufferThreshold

\* the gate without its test of the history length
GatePasses_IgnoresHistory(s) ==
    TimedeltaSeconds(now, s.last_suggestion_time) >= SuggestionGap

\* time_since_last >= 8 and len(session.conversation_history) >= 2
GatePasses(s) ==
    /\ TimedeltaSeconds(now, s.last_suggestion_time) >= SuggestionGap
    /\ Len(s.conversation_history) >= MinHistory

\* `while session.active:` followed by `await asyncio.sleep(3)`: the task
\* sleeps for another period, or its loop and the task end
LoopHead(task, active) ==
    IF active
    THEN [task EXCEPT !.tpc = "sleep", !.wakeAt = now + PollPeriod,
                      !.user_text = "", !.suggestion = ""]
    ELSE [task EXCEPT !.tpc = "done", !.user_text = "", !.suggestion = ""]

\* websocket.send_json can deliver a frame only while the connection is
\* open, that is until the handler returns; it can fail at any time
\* (the client may be gone before the handler has seen the disconnect)
CanSend(c) == conn[c].hpc = "receive"

\* the task is first scheduled: the first test of `while session.active`
task_start(c) ==
    /\ blocked = NotBlocked
    /\ conn[c].tpc = "created"
    /\ conn' = [conn EXCEPT ![c] = LoopHead(@, sessions[conn[c].sid].active)]
    /\ last' = NoStep
    /\ UNCHANGED <<now, sessions, out, closeCode, received, detached, nFrames,
                   nTranscribe, nSuggest, lastGen, lastContext, nAnalyze,
                   analyzed, nFinish, response, idState, lookup, blocked>>

\* the detach without the reset of the buffer
DetachBuffer_KeepsBuffer(s) == s

\* audio_data = session.audio_buffer; session.audio_buffer = b""
DetachBuffer(s) == [s EXCEPT !.audio_buffer = <<>>]

\* an error of the iteration that ends the task instead of being caught
IterationFailed_EndsTask(task, active) == [task EXCEPT !.tpc = "done"]

\* `except Exception as e:` of the iteration, lines 110-113: the error is
\* printed and the loop goes on with its next test of session.active
IterationFailed(task, active) == LoopHead(task, active)

\* the record of a step of the task of connection c
Did(c, what) == [c |-> c, did |-> what]

\* the synchronous calls a task makes on ai_service
Calls == {"transcribe", "suggest", "tts"}

\* the task of connection c is inside the call `call`
Calling(c, call) == [c |-> c, call |-> call]

\* the value of `blocked` when a step of the task of c is taken: the step
\* that makes a call is taken when the call returns, any other step when
\* the event loop is free
Returning(c, call, made) == IF made THEN Calling(c, call) ELSE NotBlocked

\* routes lines 50, 78 and 99: the task of connection c calls
\* ai_service.transcribe_audio, generate_coaching_suggestion or
\* generate_tts_audio.  None of them is awaited, so no other coroutine runs
\* before the call returns.
capability_call(c, call) ==
    LET s == sessions[conn[c].sid]
        s1 == [s EXCEPT !.conversation_history =
                   Append(@, [role |-> "user", content |-> conn[c].user_text])]
    IN
    /\ blocked = NotBlocked
    /\ CASE call = "transcribe" ->
              /\ conn[c].tpc = "sleep"
              /\ now >= conn[c].wakeAt
              /\ BufferReady(s.audio_buffer)
         [] call = "suggest" ->
              /\ conn[c].tpc = "sent_transcript"
              /\ GatePasses(s1)
         [] call = "tts" ->
              conn[c].tpc = "sent_suggestion"
    /\ blocked' = Calling(c, call)
    /\ last' = NoStep
    /\ UNCHANGED <<now, sessions, conn, out, closeCode, received, detached,
                   nFrames, nTranscribe, nSuggest, lastGen, lastContext,
                   nAnalyze, analyzed, nFinish, response, idState, lookup>>

\* the test that takes every result of the transcription for a text
HasText_Always(text) == TRUE

\* `if user_text:`
HasText(text) == text # ""

\* process_audio_and_generate_suggestions, lines 40-64 and 110-113: the
\* sleep ends; the buffer is tested, detached and transcribed, and a
\* non-empty text is recorded and sent.  text is what transcribe_audio
\* does: "fail" (it raises), "" or a text.
task_wake(c, text, sendOk) ==
    LET sid == conn[c].sid
        s == sessions[sid]
        s1 == DetachBuffer(s)
        s2 == [s1 EXCEPT !.transcript = add_transcript_entry(@, "user", text)]
    IN
    /\ conn[c].tpc = "sleep"
    /\ now >= conn[c].wakeAt
    /\ blocked = Returning(c, "transcribe", BufferReady(s.audio_buffer))
    /\ sendOk => CanSend(c)
    /\ IF ~BufferReady(s.audio_buffer)
       THEN /\ text = "" /\ ~sendOk
            /\ conn' = [conn EXCEPT ![c] = LoopHead(@, s.active)]
            /\ last' = Did(c, "idle_wake")
            /\ UNCHANGED <<sessions, out, detached, nTranscribe>>
       ELSE /\ detached' = [detached EXCEPT ![sid] = @ \o s.audio_buffer]
            /\ nTranscribe' = [nTranscribe EXCEPT ![sid] = @ + 1]
            /\ CASE text = "fail" ->
                    /\ ~sendOk
                    /\ sessions' = [sessions EXCEPT ![sid] = s1]
                    /\ conn' = [conn EXCEPT ![c] = IterationFailed(@, s.active)]
                    /\ last' = Did(c, "transcribe_failed")
                    /\ UNCHANGED out
                 [] ~HasText(text) ->
                    /\ ~sendOk
                    /\ sessions' = [sessions EXCEPT ![sid] = s1]
                    /\ conn' = [conn EXCEPT ![c] = LoopHead(@, s.active)]
                    /\ last' = Did(c, "transcribed_nothing")
                    /\ UNCHANGED out
                 [] OTHER ->
                    /\ sessions' = [sessions EXCEPT ![sid] = s2]
                    /\ IF sendOk
                       THEN /\ out' = [out EXCEPT ![c] = Append(@,
                                  [type |-> "transcript", text |-> text])]
                            /\ conn' = [conn EXCEPT ![c].tpc = "sent_transcript",
                                                    ![c].user_text = text]
                            /\ last' = Did(c, "transcript_sent")
                       ELSE /\ conn' = [conn EXCEPT ![c] =
                                           IterationFailed(@, s.active)]
                            /\ last' = Did(c, "transcript_send_failed")
                            /\ UNCHANGED out
    /\ UNCHANGED <<now, closeCode, received, nFrames, nSuggest, lastGen,
                   lastContext, nAnalyze, analyzed,
                   nFinish, response, idState, lookup>>
    /\ blocked' = NotBlocked

\* process_audio_and_generate_suggestions, lines 66-95: after the transcript
\* frame is sent the text joins the history, the gate is tested and a
\* suggestion is generated, recorded and sent.  sugg is what
\* generate_coaching_suggestion does: "fail" (it raises) or a suggestion.
task_after_transcript(c, sugg, sendOk) ==
    LET sid == conn[c].sid
        s == sessions[sid]
        s1 == [s EXCEPT !.conversation_history =
                   Append(@, [role |-> "user", content |-> conn[c].user_text])]
        s2 == [s1 EXCEPT !.transcript = add_transcript_entry(@, "coach", sugg)]
    IN
    /\ conn[c].tpc = "sent_transcript"
    /\ blocked = Returning(c, "suggest", GatePasses(s1))
    /\ sendOk => CanSend(c)
    /\ IF ~GatePasses(s1)
       THEN /\ sugg = "fail" /\ ~sendOk
            /\ sessions' = [sessions EXCEPT ![sid] = s1]
            /\ conn' = [conn EXCEPT ![c] = LoopHead(@, s.active)]
            /\ last' = Did(c, "gate_closed")
            /\ UNCHANGED <<out, nSuggest, lastGen, lastContext>>
       ELSE /\ nSuggest' = [nSuggest EXCEPT ![sid] = @ + 1]
            /\ lastContext' = [lastContext EXCEPT ![sid] =
                                  LastN(s1.conversation_history, HistoryWindow)]
            /\ IF sugg = "fail"
               THEN /\ ~sendOk
                    /\ sessions' = [sessions EXCEPT ![sid] = s1]
                    /\ conn' = [conn EXCEPT ![c] = IterationFailed(@, s.active)]
                    /\ last' = Did(c, "suggest_failed")
                    /\ UNCHANGED <<out, lastGen>>
               ELSE /\ sessions' = [sessions EXCEPT ![sid] = s2]
                    /\ lastGen' = [lastGen EXCEPT ![sid] = now]
                    /\ IF sendOk
                       THEN /\ out' = [out EXCEPT ![c] = Append(@,
                                  [type |-> "suggestion", text |-> sugg])]
                            /\ conn' = [conn EXCEPT ![c].tpc = "sent_suggestion",
                                                    ![c].suggestion = sugg]
                            /\ last' = Did(c, "suggestion_sent")
                       ELSE /\ conn' = [conn EXCEPT ![c] =
                                           IterationFailed(@, s.active)]
                            /\ last' = Did(c, "suggestion_send_failed")
                            /\ UNCHANGED out
    /\ UNCHANGED <<now, closeCode, received, detached, nFrames, nTranscribe,
                   nAnalyze, analyzed, nFinish,
                   response, idState, lookup>>
    /\ blocked' = NotBlocked

\* the stamp left out
StampSuggestion_Skipped(s) == s

\* session.last_suggestion_time = datetime.utcnow()
StampSuggestion(s) == [s EXCEPT !.last_suggestion_time = now]

\* process_audio_and_generate_suggestions, lines 97-108: after the
\* suggestion frame is sent the speech is synthesized and sent; a failure
\* of either is caught by the inner except, and the time is stamped.
\* ttsOk is what generate_tts_audio does.
task_after_suggestion(c, ttsOk, sendOk) ==
    LET sid == conn[c].sid
        s == sessions[sid]
    IN
    /\ conn[c].tpc = "sent_suggestion"
    /\ blocked = Returning(c, "tts", TRUE)
    /\ sendOk => (ttsOk /\ CanSend(c))
    /\ IF ttsOk /\ sendOk
       THEN /\ out' = [out EXCEPT ![c] = Append(@,
                           [type |-> "audio", text |-> "mp3"])]
            /\ conn' = [conn EXCEPT ![c].tpc = "sent_audio"]
            /\ last' = Did(c, "audio_sent")
            /\ UNCHANGED sessions
       ELSE /\ sessions' = [sessions EXCEPT ![sid] = StampSuggestion(s)]
            /\ conn' = [conn EXCEPT ![c] = LoopHead(@, s.active)]
            /\ last' = Did(c, IF ttsOk THEN "audio_send_failed" ELSE "tts_failed")
            /\ UNCHANGED out
    /\ UNCHANGED <<now, closeCode, received, detached, nFrames, nTranscribe,
                   nSuggest, lastGen, lastContext, nAnalyze, analyzed,
                   nFinish, response, idState, lookup>>
    /\ blocked' = NotBlocked

\* process_audio_and_generate_suggestions, line 108: after the audio frame
\* is sent the time is stamped
task_after_audio(c) ==
    LET sid == conn[c].sid
        s == sessions[sid]
    IN
    /\ blocked = NotBlocked
    /\ conn[c].tpc = "sent_audio"
    /\ sessions' = [sessions EXCEPT ![sid] = StampSuggestion(s)]
    /\ conn' = [conn EXCEPT ![c] = LoopHead(@, s.active)]
    /\ last' = Did(c, "stamped")
    /\ UNCHANGED <<now, out, closeCode, received, detached, nFrames, nTranscribe,
                   nSuggest, lastGen, lastContext, nAnalyze, analyzed,
                   nFinish, response, idState, lookup, blocked>>

\* AIService.analyze_session, lines 141-152: the summary of a session
\* without conversation
DefaultSummary ==
    [ stars |-> <<"Started the session", "Ready to practice">>,
      wish |-> "Have a longer conversation to get more feedback",
      filler_percentage |-> 0,
      takeaways |-> <<"Practice makes perfect",
                      "Try again with a real conversation",
                      "Focus on your goals">>,
      summary_bullets |-> <<"Session started but no conversation recorded">> ]

\* what the external analysis model returns when it returns all five fields
ModelSummary ==
    [ stars |-> <<"star 1", "star 2">>,
      wish |-> "one wish",
      filler_percentage |-> 5,
      takeaways |-> <<"takeaway 1", "takeaway 2", "takeaway 3">>,
      summary_bullets |-> <<"bullet 1", "bullet 2", "bullet 3">> ]

\* the fields routes.finish_session reads from the result of the analysis
RequiredFields == {"stars", "wish", "filler_percentage", "takeaways",
                   "summary_bullets"}

\* what the external analysis model can do when it is called: return all
\* five fields, raise, or return JSON that lacks fields
ModelAnswers == {"ok", "fail", "malformed"}
ModelResult(answer) ==
    IF answer = "ok" THEN ModelSummary
    ELSE [ stars |-> <<"star 1", "star 2">>, wish |-> "one wish" ]

\* the block with the user's entries only
TranscriptText_UserOnly(transcript) ==
    LET users == SelectSeq(transcript, LAMBDA e : e.speaker = "user")
    IN  [i \in 1..Len(users) |-> <<users[i].speaker, users[i].text>>]

\* AIService.analyze_session, lines 136-139: the transcript as one text
\* block, a line "[timestamp] speaker: text" per entry, in order; the
\* block is kept as the sequence of its lines
TranscriptText(transcript) ==
    [i \in 1..Len(transcript) |-> <<transcript[i].speaker, transcript[i].text>>]

\* the test that never finds the block blank
NoConversation_Never(block) == FALSE

\* `not transcript_text.strip()`: every line has its brackets and colon, so
\* the block is blank exactly when it has no line
NoConversation(block) == block = <<>>

\* an unknown identifier answered as a success
NotFound_Accepted(sid) == [sid |-> sid, status |-> 200]

\* raise HTTPException(status_code=404, detail="Session not found")
NotFound(sid) == [sid |-> sid, status |-> 404]

\* a failed analysis answered with the default summary
ServerError_Defaulted(sid) ==
    [sid |-> sid, status |-> 200, summary |-> DefaultSummary, transcript |-> <<>>]

\* an exception that leaves the route: the caller gets a server error
ServerError(sid) == [sid |-> sid, status |-> 500]

\* FinishResponse(stars=result["stars"], ..., transcript=session.transcript)
FinishResponse(sid, result, transcript) ==
    [ sid |-> sid, status |-> 200,
      summary |-> [ stars |-> result.stars,
                    wish |-> result.wish,
                    filler_percentage |-> result.filler_percentage,
                    takeaways |-> result.takeaways,
                    summary_bullets |-> result.summary_bullets ],
      transcript |-> transcript ]

\* a finalize that leaves the flag as it was
Deactivate_Skipped(registry, sid) == registry

\* the flag of every session cleared
Deactivate_All(registry, sid) ==
    [k \in DOMAIN registry |-> [registry[k] EXCEPT !.active = FALSE]]

\* session = session_manager.get_session(session_id); session.active = False
Deactivate(registry, sid) == [registry EXCEPT ![sid].active = FALSE]

\* routes.finish_session (with AIService.analyze_session, which it calls
\* synchronously): answer is what the external analysis model does if it
\* is called
finish_session(sid, answer) ==
    /\ blocked = NotBlocked
    /\ nFinish' = nFinish + 1
    /\ IF ~session_exists(sid)
       THEN /\ answer = "ok"
            /\ response' = NotFound(sid)
            /\ last' = Did(0, "not_found")
            /\ UNCHANGED <<sessions, nAnalyze, analyzed>>
       ELSE LET transcript == sessions[sid].transcript
                block == TranscriptText(transcript)
                result == ModelResult(answer)
            IN
            /\ sessions' = Deactivate(sessions, sid)
            /\ IF NoConversation(block)
               THEN /\ answer = "ok"
                    /\ response' = FinishResponse(sid, DefaultSummary, transcript)
                    /\ last' = Did(0, "no_conversation")
                    /\ UNCHANGED <<nAnalyze, analyzed>>
               ELSE /\ nAnalyze' = nAnalyze + 1
                    /\ analyzed' = block
                    /\ last' = Did(0, answer)
                    /\ IF answer # "fail" /\ RequiredFields \subseteq DOMAIN result
                       THEN response' = FinishResponse(sid, result, transcript)
                       ELSE response' = ServerError(sid)
    /\ UNCHANGED <<now, conn, out, closeCode, received, detached, nFrames,
                   nTranscribe, nSuggest, lastGen, lastContext, idState, lookup,
                   blocked>>

\* The clock of a run stops at second `time`
Clock(time) == now < time /\ Tick

\* The streaming connections `conns`, which receive `frames` audio frames
\* in all
Streaming(conns, frames) ==
    \/ \E c \in conns, sid \in SessionIds \cup {UnknownId} : ws_connect(c, sid)
    \/ \E c \in conns : ws_accepted(c)
    \/ \E c \in conns, kind \in MessageKinds, size \in FrameSizes :
           /\ kind = "bytes" => nFrames < frames
           /\ ws_receive(c, kind, size)
    \/ \E c \in conns : task_start(c)
    \/ \E c \in conns, call \in Calls : capability_call(c, call)
    \/ \E c \in conns, text \in {"fail", ""} \cup Texts, sendOk \in BOOLEAN :
           task_wake(c, text, sendOk)
    \/ \E c \in conns, sugg \in {"fail"} \cup Suggestions, sendOk \in BOOLEAN :
           task_after_transcript(c, sugg, sendOk)
    \/ \E c \in conns, ttsOk \in BOOLEAN, sendOk \in BOOLEAN :
           task_after_suggestion(c, ttsOk, sendOk)
    \/ \E c \in conns : task_after_audio(c)

\* At most `finishes` finalize calls
Finalize(finishes) ==
    \E sid \in SessionIds \cup {UnknownId}, answer \in ModelAnswers :
        /\ nFinish < finishes
        /\ finish_session(sid, answer)

\* Session creation, for the identifiers `ids`
Registry(ids) == \E sid \in ids : create_session(sid)

\* The whole program: every session and connection, and finalize
Next ==
    \/ Clock(DuoTime)
    \/ Registry(SessionIds)
    \/ Streaming(Conns, DuoFrames)
    \/ Finalize(DuoFinish)
Spec == Init /\ [][Next]_vars

\* One session with one streaming connection, and finalize
NextSolo ==
    \/ Clock(SoloTime)
    \/ Registry({1})
    \/ Streaming({1}, SoloFrames)
    \/ Finalize(SoloFinish)
SpecSolo == Init /\ [][NextSolo]_vars

\* One session with one streaming connection in a longer run, no finalize
NextLong ==
    \/ Clock(LongTime)
    \/ Registry({1})
    \/ Streaming({1}, LongFrames)
SpecLong == Init /\ [][NextLong]_vars

\* One session with two streaming connections, no finalize
NextDuo ==
    \/ Clock(DuoTime)
    \/ Registry({1})
    \/ Streaming({1, 2}, DuoFrames)
SpecDuo == Init /\ [][NextDuo]_vars

\* Two sessions, which exist before the clock runs, with one streaming
\* connection to either of them, and finalize
NextPair ==
    \/ DOMAIN sessions = {1, 2} /\ Clock(SoloTime)
    \/ Registry({1, 2})
    \/ Streaming({1}, SoloFrames)
    \/ Finalize(SoloFinish)
SpecPair == Init /\ [][NextPair]_vars

\* A session in a long conversation.  Its connection was accepted when it
\* was created; since then a frame of 32001 bytes has arrived in every poll
\* period and was transcribed to a text at the next wake, and every call
\* of the suggestion capability has failed, so that no suggestion was
\* recorded and the time never stamped.  n texts are in the history, and
\* the task has just sent the transcript event of the next one.
LongConversation(n, texts) ==
    LET frames == [i \in 1..(n + 1) |-> [id |-> i, len |-> BufferThreshold + 1]]
        history == [i \in 1..n |-> [role |-> "user", content |-> texts[i]]]
        opened == n + 1 - MinHistory
    IN
    /\ now = PollPeriod * (n + 1)
    /\ sessions = (1 :> [ NewSession(1) EXCEPT
                            !.transcript = [i \in 1..(n + 1) |->
                                               [speaker |-> "user", text |-> texts[i]]],
                            !.last_suggestion_time = 0,
                            !.conversation_history = history,
                            !.active = TRUE ])
    /\ conn = [c \in Conns |->
                  IF c = 1
                  THEN [ hpc |-> "receive", sid |-> 1, tpc |-> "sent_transcript",
                         wakeAt |-> PollPeriod * (n + 1),
                         user_text |-> texts[n + 1], suggestion |-> "" ]
                  ELSE IdleConn]
    /\ out = [c \in Conns |->
                 IF c = 1
                 THEN [i \in 1..(n + 1) |-> [type |-> "transcript", text |-> texts[i]]]
                 ELSE <<>>]
    /\ closeCode = [c \in Conns |-> 0]
    /\ received = [s \in SessionIds |-> IF s = 1 THEN frames ELSE <<>>]
    /\ detached = [s \in SessionIds |-> IF s = 1 THEN frames ELSE <<>>]
    /\ nFrames = n + 1
    /\ nTranscribe = [s \in SessionIds |-> IF s = 1 THEN n + 1 ELSE 0]
    /\ nSuggest = [s \in SessionIds |->
                      IF s = 1 /\ opened > 0 THEN opened - 1 ELSE 0]
    /\ lastGen = [s \in SessionIds |-> -1]
    /\ lastContext = [s \in SessionIds |->
                         IF s = 1 /\ opened > 1
                         THEN LastN(history, HistoryWindow) ELSE <<>>]
    /\ nAnalyze = 0
    /\ analyzed = <<>>
    /\ nFinish = 0
    /\ response = NoResponse
    /\ idState = [sid \in AllIds |-> IF sid = 1 THEN "held" ELSE "unused"]
    /\ lookup = [sid |-> 0, result |-> None]
    /\ blocked = NotBlocked
    /\ last = Did(1, "transcript_sent")

InitWindow ==
    \E n \in 0..MaxHistory :
        \E texts \in [1..(n + 1) -> HistoryTexts] : LongConversation(n, texts)

\* The rest of the iteration of a long conversation: the gate, the
\* suggestion call and the suggestion event
NextWindow ==
    \/ capability_call(1, "suggest")
    \/ \E sugg \in {"fail"} \cup Suggestions, sendOk \in BOOLEAN :
           task_after_transcript(1, sugg, sendOk)
SpecWindow == InitWindow /\ [][NextWindow]_vars

\* The registry alone: create, lookup and delete in any order, with no
\* streaming (no route calls delete_session)
NextRegistry ==
    \/ Registry(RegistryIds)
    \/ \E sid \in RegistryIds \cup {MaxRegistryIds + 1} : lookup_session(sid)
    \/ \E sid \in RegistryIds \cup {MaxRegistryIds + 1} : delete_session(sid)
SpecRegistry == Init /\ [][NextRegistry]_vars

\* ----------------------------------------------------------------- claims
\* the session a connection streams to, the connections of a session, and
\* the tasks that have not ended
Bound(c) == conn[c].sid \in DOMAIN sessions
LiveTask(c) == conn[c].tpc \in {"created", "sleep", "sent_transcript",
                                "sent_suggestion", "sent_audio"}
FramesOf(c, type) == SelectSeq(out[c], LAMBDA f : f.type = type)

\* C1: once a session's active flag is false, no further outbound frame
\* (transcript, suggestion or audio) is sent on a connection of that
\* session: a step that starts with the session inactive sends nothing.
C1_NoFrameWhileInactive ==
    [][\A c \in Conns :
          (Bound(c) /\ ~sessions[conn[c].sid].active) => out'[c] = out[c]]_vars

\* C2: no audio byte is lost or duplicated by the detach-and-reset step:
\* in every state the bytes detached so far followed by the current
\* audio_buffer are the frames received so far, in arrival order.
C2_NoByteLostOrDuplicated ==
    \A s \in DOMAIN sessions :
        detached[s] \o sessions[s].audio_buffer = received[s]

\* a frame was appended while a task was suspended between its detach and
\* the end of its iteration
C2_Witness ==
    \E c \in Conns :
        /\ conn[c].tpc = "sent_transcript"
        /\ detached[conn[c].sid] # <<>>
        /\ sessions[conn[c].sid].audio_buffer # <<>>

\* C3: for every session at most one ingestion loop and at most one
\* analysis cycle are live at any time.
C3_AtMostOneLoopAndCycle ==
    \A s \in DOMAIN sessions :
        /\ Cardinality({c \in Conns : conn[c].sid = s /\ conn[c].hpc = "receive"}) <= 1
        /\ Cardinality({c \in Conns : conn[c].sid = s /\ LiveTask(c)}) <= 1

\* the coach entries of a transcript: one per suggestion generated
CoachEntries(s) == SelectSeq(s.transcript, LAMBDA e : e.speaker = "coach")

\* C4: within one session any two suggestion generations are at least 8
\* time units apart: a step that generates a suggestion is at least 8
\* after the latest generation before it.
C4_SuggestionsEightApart ==
    [][\A s \in DOMAIN sessions :
          (/\ Len(CoachEntries(sessions'[s])) > Len(CoachEntries(sessions[s]))
           /\ lastGen[s] >= 0)
          => now - lastGen[s] >= SuggestionGap]_vars

WakeStep(c) == conn[c].tpc = "sleep" /\ last'.c = c

C7_OneDetachPerReadyWake ==
    [][\A c \in Conns :
          LET s == conn[c].sid IN
          (WakeStep(c) /\ ByteLen(sessions[s].audio_buffer) > BufferThreshold)
              => /\ sessions'[s].audio_buffer = <<>>
                 /\ detached'[s] = detached[s] \o sessions[s].audio_buffer
                 /\ nTranscribe'[s] = nTranscribe[s] + 1]_vars

\* a wake has just detached a buffer of two frames as the one chunk of the
\* one transcription call
C7_Witness ==
    /\ last.did \in {"transcribe_failed", "transcribed_nothing",
                     "transcript_sent", "transcript_send_failed"}
    /\ LET s == conn[last.c].sid IN
          /\ nTranscribe[s] = 1
          /\ Len(detached[s]) = 2
          /\ sessions[s].audio_buffer = <<>>

\* C8: after a session's active flag has become false its analysis cycle
\* stops within one poll period: it schedules no wake after at most one
\* further wake.  The handler of a connection clears the flag when it
\* returns, so the cycle of a returned handler never goes back to sleep.
C8_StoppedCycleSchedulesNoWake ==
    [][\A c \in Conns :
          (conn[c].hpc = "returned" /\ last'.c = c) => conn'[c].tpc # "sleep"]_vars

\* C9: a failure of the transcription call or of the suggestion call in
\* an iteration leaves active, the ingestion loop and the connection as
\* they are, and the cycle of an active session sleeps for its next period.
C9_FailureKeepsCycle ==
    [][\A c \in Conns :
          LET s == conn[c].sid IN
          (last'.c = c /\ last'.did \in {"transcribe_failed", "suggest_failed"})
              => /\ sessions'[s].active = sessions[s].active
                 /\ conn'[c].hpc = conn[c].hpc
                 /\ closeCode' = closeCode
                 /\ sessions[s].active
                        => /\ conn'[c].tpc = "sleep"
                           /\ conn'[c].wakeAt = now + PollPeriod]_vars

\* the suggestion call has just failed in an active session whose
\* ingestion loop is receiving
C9_Witness ==
    /\ last.did = "suggest_failed"
    /\ sessions[conn[last.c].sid].active
    /\ conn[last.c].hpc = "receive"
    /\ conn[last.c].tpc = "sleep"

\* C10: when speech synthesis fails for a triggered suggestion, the
\* suggestion event was sent before, last_suggestion_time is set to the
\* current time, active is unchanged and the cycle of an active session
\* sleeps for its next period.
C10_SynthesisFailureStillStamps ==
    [][\A c \in Conns :
          LET s == conn[c].sid IN
          (last'.c = c /\ last'.did = "tts_failed")
              => /\ out'[c] = out[c]
                 /\ out[c] # <<>>
                 /\ out[c][Len(out[c])] =
                        [type |-> "suggestion", text |-> conn[c].suggestion]
                 /\ sessions'[s].last_suggestion_time = now
                 /\ sessions'[s].active = sessions[s].active
                 /\ sessions[s].active
                        => /\ conn'[c].tpc = "sleep"
                           /\ conn'[c].wakeAt = now + PollPeriod]_vars

\* synthesis has just failed in an active session
C10_Witness ==
    /\ last.did = "tts_failed"
    /\ sessions[conn[last.c].sid].active
    /\ sessions[conn[last.c].sid].last_suggestion_time = now
    /\ conn[last.c].tpc = "sleep"
    /\ Len(FramesOf(last.c, "suggestion")) = 1
\* the step is a finalize call for the identifier sid
FinishStep(sid) == nFinish' = nFinish + 1 /\ response'.sid = sid

\* C11: finalize on an existing session whose transcript is empty returns
\* the fixed default summary (two stars, one wish, filler percentage 0,
\* three takeaways, one bullet) together with the empty transcript, and
\* makes no call of the external analysis model.
C11_EmptyTranscriptGetsDefault ==
    [][\A sid \in DOMAIN sessions :
          (FinishStep(sid) /\ sessions[sid].transcript = <<>>)
              => /\ response'.status = 200
                 /\ response'.summary = DefaultSummary
                 /\ Len(response'.summary.stars) = 2
                 /\ response'.summary.filler_percentage = 0
                 /\ Len(response'.summary.takeaways) = 3
                 /\ Len(response'.summary.summary_bullets) = 1
                 /\ response'.transcript = <<>>
                 /\ nAnalyze' = nAnalyze
                 /\ analyzed' = analyzed]_vars

\* a session that received audio but recorded no text was finalized
C11_Witness ==
    /\ last.did = "no_conversation"
    /\ response.status = 200
    /\ response.summary = DefaultSummary
    /\ nAnalyze = 0
    /\ received[response.sid] # <<>>

\* C12: finalize on an identifier that is not in the registry fails with
\* the not-found outcome, calls no external capability and leaves the
\* registry and every session's state unchanged.
C12_UnknownFinalizeNotFound ==
    [][\A sid \in SessionIds \cup {UnknownId} :
          (FinishStep(sid) /\ ~session_exists(sid))
              => /\ response'.status = 404
                 /\ sessions' = sessions
                 /\ nAnalyze' = nAnalyze
                 /\ analyzed' = analyzed
                 /\ nTranscribe' = nTranscribe
                 /\ nSuggest' = nSuggest]_vars

\* an unknown identifier was finalized while a session with a recorded
\* conversation was active
C12_Witness ==
    /\ last.did = "not_found"
    /\ response.status = 404
    /\ \E s \in DOMAIN sessions :
          sessions[s].active /\ sessions[s].transcript # <<>>

\* C13: finalize on a session with a non-empty transcript calls the
\* analysis model exactly once, with every transcript entry in its original
\* order, and returns the five fields of the model's result unchanged
\* together with the full transcript.
C13_AnalysisGetsWholeTranscript ==
    [][\A sid \in DOMAIN sessions :
          LET t == sessions[sid].transcript IN
          (FinishStep(sid) /\ t # <<>>)
              => /\ nAnalyze' = nAnalyze + 1
                 /\ Len(analyzed') = Len(t)
                 /\ \A i \in 1..Len(t) :
                        analyzed'[i] = <<t[i].speaker, t[i].text>>
                 /\ last'.did = "ok"
                        => /\ response'.status = 200
                           /\ response'.summary = ModelResult("ok")
                           /\ response'.transcript = t]_vars

\* a transcript with a user entry followed by a coach entry was analysed
\* and the result returned
C13_Witness ==
    /\ last.did = "ok"
    /\ nAnalyze = 1
    /\ response.status = 200
    /\ Len(response.transcript) >= 2
    /\ \E i \in 1..(Len(response.transcript) - 1) :
          /\ response.transcript[i].speaker = "user"
          /\ response.transcript[i + 1].speaker = "coach"

\* C14: if the analysis model fails, or its result lacks one of the five
\* fields, finalize ends in an error surfaced to the caller (neither the
\* default summary nor a patched result), and the session is left
\* inactive with its transcript unchanged.
C14_AnalysisFailureSurfaces ==
    [][\A sid \in DOMAIN sessions :
          (FinishStep(sid) /\ last'.did \in {"fail", "malformed"})
              => /\ response'.status = 500
                 /\ "summary" \notin DOMAIN response'
                 /\ ~sessions'[sid].active
                 /\ sessions'[sid].transcript = sessions[sid].transcript]_vars

\* the model returned a result without all fields for an active session
C14_Witness ==
    /\ last.did = "malformed"
    /\ response.status = 500
    /\ nAnalyze = 1
    /\ ~sessions[response.sid].active
    /\ sessions[response.sid].transcript # <<>>
\* the step opens connection c
OpenStep(c) == conn[c].hpc = "idle" /\ conn'[c].hpc # "idle"

\* C15: opening a streaming connection with an identifier that is not in
\* the registry closes the connection with the not-found code without
\* accepting it, starts no ingestion loop and no analysis cycle, creates no
\* session and changes no session's state; a connection closed that way
\* never gets a loop, a cycle or a frame.
C15_UnknownConnectRejected ==
    /\ [][\A c \in Conns :
             (OpenStep(c) /\ ~session_exists(conn'[c].sid))
                 => /\ closeCode'[c] = NotFoundCloseCode
                    /\ conn'[c].hpc = "returned"
                    /\ conn'[c].tpc = "none"
                    /\ sessions' = sessions
                    /\ out' = out]_vars
    /\ [](\A c \in Conns :
             closeCode[c] # 0
                 => /\ closeCode[c] = NotFoundCloseCode
                    /\ conn[c].hpc = "returned"
                    /\ conn[c].tpc = "none"
                    /\ out[c] = <<>>)

\* a connection was refused while the registry held a session
C15_Witness ==
    \E c \in Conns :
        /\ closeCode[c] = NotFoundCloseCode
        /\ conn[c].hpc = "returned"
        /\ DOMAIN sessions # {}
        /\ ~session_exists(conn[c].sid)
\* the session was activated at some time: a connection to it was accepted
WasActive(s) ==
    \E c \in Conns : /\ conn[c].sid = s
                     /\ conn[c].hpc \in {"receive", "returned"}
                     /\ closeCode[c] = 0

\* C16: once a session is inactive it accepts no further audio: a step
\* that starts with active false appends nothing to audio_buffer (also a
\* frame that arrives on a still-open connection after finalize), and
\* active does not return to true after it has been cleared.
C16_InactiveAcceptsNoAudio ==
    [][\A s \in DOMAIN sessions :
          ~sessions[s].active
              => /\ Len(sessions'[s].audio_buffer) <= Len(sessions[s].audio_buffer)
                 /\ WasActive(s) => ~sessions'[s].active]_vars
\* C17: a transport failure in the ingestion loop (a disconnect, or a
\* control frame that cannot be parsed or is no message object) has the
\* effect of a stop message: whenever the ingestion loop of a connection
\* ends, active is false and the task of the connection is cancelled, so
\* it takes no further step.
C17_LoopExitCancelsCycle ==
    [][\A c \in Conns :
          (conn[c].hpc = "receive" /\ conn'[c].hpc = "returned")
              => /\ ~sessions'[conn[c].sid].active
                 /\ conn'[c].tpc \in {"cancelled", "done"}]_vars
\* the streaming phase of session s has ended: it was activated, it is
\* inactive, and every handler of it has returned and every task ended
StreamingEnded(s) ==
    /\ WasActive(s)
    /\ ~sessions[s].active
    /\ \A c \in Conns :
          conn[c].sid = s => conn[c].hpc \in {"idle", "returned"} /\ ~LiveTask(c)

\* C18: every audio byte a session received ends up in a chunk handed to
\* transcription: when the streaming phase of the session has ended, the
\* chunks detached, concatenated, are the whole input in arrival order.
C18_AllAudioTranscribed ==
    \A s \in DOMAIN sessions :
        StreamingEnded(s) => detached[s] = received[s]
\* C19: the two activities of a session do not block each other: while
\* the task of a connection is inside a capability call (transcription,
\* suggestion or synthesis), the ingestion loop of the connection can
\* receive a frame and append it, and can process a stop message.
C19_CallDoesNotBlockIngestion ==
    \A c \in Conns :
        (blocked.c = c /\ conn[c].hpc = "receive")
            => /\ ENABLED (\E size \in FrameSizes : ws_receive(c, "bytes", size))
               /\ ENABLED ws_receive(c, "stop", 16000)
\* C20: the registry keeps a consistent identifier-to-session mapping
\* under any sequence of create, lookup and delete: an identifier is held
\* exactly from its create to its delete, by the session made for it; a
\* create takes an identifier no session holds and leaves the other
\* entries unchanged; a lookup returns the session of a held identifier
\* and the not-found value for an unknown or deleted one, and changes
\* nothing.
C20_RegistryConsistent ==
    /\ [](\A sid \in AllIds :
             /\ session_exists(sid) <=> idState[sid] = "held"
             /\ session_exists(sid) => get_session(sid).session_id = sid
             /\ ~session_exists(sid) => get_session(sid) = None)
    /\ [][\A sid \in AllIds :
             /\ (idState[sid] = "unused" /\ idState'[sid] = "held")
                   => /\ ~session_exists(sid)
                      /\ DOMAIN sessions' = DOMAIN sessions \cup {sid}
                      /\ \A other \in DOMAIN sessions :
                             sessions'[other] = sessions[other]
             /\ (lookup' # lookup /\ lookup'.sid = sid)
                   => /\ sessions' = sessions
                      /\ lookup'.result =
                            IF idState[sid] = "held" THEN sessions[sid] ELSE None]_vars

\* with one identifier held and one deleted, the lookup of the deleted one
\* returned the not-found value
C20_Witness ==
    /\ lookup.sid \in AllIds
    /\ idState[lookup.sid] = "deleted"
    /\ lookup.result = None
    /\ \E sid \in AllIds : idState[sid] = "held"
    /\ \E sid \in AllIds : idState[sid] = "unused"
\* C21: sessions are independent: a step changes the state (audio_buffer,
\* transcript, conversation_history, last_suggestion_time, active) of a
\* session only if it is a step of a connection to that session, the
\* receipt of a frame for it, or a finalize call for it; every other
\* session is left as it is.
C21_SessionsIndependent ==
    [][\A s \in DOMAIN sessions :
          sessions'[s] # sessions[s]
              => \/ \E c \in Conns : conn[c].sid = s /\ conn'[c] # conn[c]
                 \/ received'[s] # received[s]
                 \/ FinishStep(s)]_vars

\* a session was finalized while another session was active with audio in
\* its buffer and a recorded conversation
C21_Witness ==
    /\ last.did \in {"no_conversation", "ok", "fail", "malformed"}
    /\ response.sid \in DOMAIN sessions
    /\ \E s \in DOMAIN sessions \ {response.sid} :
          /\ sessions[s].active
          /\ sessions[s].audio_buffer # <<>>
          /\ sessions[s].transcript # <<>>
\* C22: a session's transcript is append-only: after any step the previous
\* transcript is a prefix of the new one (no entry is removed, reordered or
\* modified), and every entry has the speaker user or coach.
C22_TranscriptAppendOnly ==
    /\ [](\A s \in DOMAIN sessions :
             \A i \in 1..Len(sessions[s].transcript) :
                 sessions[s].transcript[i].speaker \in {"user", "coach"})
    /\ [][\A s \in DOMAIN sessions :
             LET old == sessions[s].transcript
                 new == sessions'[s].transcript
             IN  /\ Len(new) >= Len(old)
                 /\ SubSeq(new, 1, Len(old)) = old]_vars

\* a transcript of two user entries and a coach entry after them
C22_Witness ==
    \E s \in DOMAIN sessions :
        LET t == sessions[s].transcript IN
        /\ Len(t) = 3
        /\ t[1].speaker = "user"
        /\ t[2].speaker = "user"
        /\ t[3].speaker = "coach"
\* the outcomes that end an iteration in which the suggestion capability
\* was invoked, and those that end one in which it was not
TriggeredEnds == {"suggest_failed", "suggestion_send_failed", "tts_failed",
                  "audio_send_failed", "stamped"}
UntriggeredEnds == {"idle_wake", "transcribe_failed", "transcribed_nothing",
                    "transcript_send_failed", "gate_closed"}

\* C23: last_suggestion_time is updated exactly once for every triggered
\* suggestion: the step that ends an iteration in which the suggestion
\* capability was invoked sets it to the current time, and no other step
\* of a task changes it.
C23_OneStampPerTrigger ==
    [][\A c \in Conns :
          last'.c = c
              => LET s == conn[c].sid IN
                 IF last'.did \in TriggeredEnds
                 THEN sessions'[s].last_suggestion_time = now
                 ELSE sessions'[s].last_suggestion_time =
                          sessions[s].last_suggestion_time]_vars

\* the user entries of a transcript, and the transcript events sent on the
\* connections of a session
UserEntries(s) == SelectSeq(sessions[s].transcript, LAMBDA e : e.speaker = "user")
TranscriptEvents(s) ==
    {p \in Conns \X (1..(2 * Len(sessions[s].transcript))) :
        /\ conn[p[1]].sid = s
        /\ p[2] <= Len(out[p[1]])
        /\ out[p[1]][p[2]].type = "transcript"}

\* C24: whenever a transcription returns a non-empty text all three
\* effects take place for it: every user entry of the transcript has its
\* transcript event and its conversation_history entry, but for a text
\* whose event is being sent, which gets its history entry next.
C24_TextHasAllThreeEffects ==
    \A s \in DOMAIN sessions :
        LET sending == {c \in Conns : conn[c].sid = s /\ conn[c].tpc = "sent_transcript"}
        IN  /\ Cardinality(TranscriptEvents(s)) = Len(UserEntries(s))
            /\ Len(sessions[s].conversation_history) + Cardinality(sending)
                   = Len(UserEntries(s))

\* C25: the analysis cycle tests active at every wake: a wake detaches the
\* buffer and calls transcription only if active is true at that wake.
C25_WakeTestsActive ==
    [][\A c \in Conns :
          (WakeStep(c) /\ ~sessions[conn[c].sid].active)
              => /\ detached' = detached
                 /\ nTranscribe' = nTranscribe
                 /\ sessions'[conn[c].sid].audio_buffer
                        = sessions[conn[c].sid].audio_buffer]_vars
\* C26: the suggestion gate is evaluated only right after a non-empty
\* transcription: an iteration whose transcription returns no text or fails
\* appends no transcript entry and no history entry, emits no event, does
\* not invoke the suggestion capability and leaves last_suggestion_time
\* unchanged, while the detached audio is consumed; and the suggestion
\* capability is invoked only by a task that has just sent a transcript.
C26_NoTextNoEffects ==
    [][\A c \in Conns :
          LET s == conn[c].sid IN
          /\ (last'.c = c /\ last'.did \in {"transcribe_failed", "transcribed_nothing"})
                => /\ sessions'[s].transcript = sessions[s].transcript
                   /\ sessions'[s].conversation_history = sessions[s].conversation_history
                   /\ sessions'[s].last_suggestion_time = sessions[s].last_suggestion_time
                   /\ out' = out
                   /\ nSuggest' = nSuggest
                   /\ conn'[c].tpc \in {"sleep", "done"}
                   /\ sessions'[s].audio_buffer = <<>>
                   /\ detached'[s] = detached[s] \o sessions[s].audio_buffer
          /\ (last'.c = c /\ nSuggest' # nSuggest)
                => conn[c].tpc = "sent_transcript" /\ conn[c].user_text # ""]_vars

\* the second chunk of a session was transcribed to nothing
C26_Witness ==
    /\ last.did = "transcribed_nothing"
    /\ LET s == conn[last.c].sid IN
          /\ Len(sessions[s].conversation_history) = 1
          /\ Len(detached[s]) = 2
          /\ sessions[s].audio_buffer = <<>>
\* C27: when the gate passes, the context of the suggestion call is the
\* most recent 6 entries of conversation_history in order (all of them
\* when there are fewer than 6), and the stored conversation_history is
\* not shortened by the call.
C27_ContextIsLastSix ==
    [][\A c \in Conns :
          (last'.c = c /\ nSuggest' # nSuggest)
              => LET s == conn[c].sid
                     h == sessions[s].conversation_history
                     h1 == sessions'[s].conversation_history
                     k == IF Len(h1) < HistoryWindow THEN Len(h1) ELSE HistoryWindow
                     ctx == lastContext'[s]
                 IN  /\ Len(ctx) = k
                     /\ \A i \in 1..k : ctx[i] = h1[Len(h1) - k + i]
                     /\ Len(h1) = Len(h) + 1
                     /\ SubSeq(h1, 1, Len(h)) = h]_vars

\* a suggestion was generated from a history of more than 6 entries
C27_Witness ==
    /\ last.did = "suggestion_sent"
    /\ LET s == conn[last.c].sid IN
          /\ Len(sessions[s].conversation_history) > HistoryWindow
          /\ Len(lastContext[s]) = HistoryWindow
          /\ lastContext[s][1] # sessions[s].conversation_history[1]
\* C28: finalize deactivates the session and the deactivation is
\* idempotent: after a finalize call on an existing session `active` is
\* false and nothing else of the session has changed; a call on an
\* already inactive session changes nothing at all, and it is answered as
\* a call on an active session is: never as "not found", and with an
\* error only if the analysis itself failed.
C28_FinalizeDeactivatesIdempotent ==
    [][\A sid \in SessionIds :
          (FinishStep(sid) /\ session_exists(sid))
              => /\ ~sessions'[sid].active
                 /\ sessions' = [sessions EXCEPT ![sid].active = FALSE]
                 /\ ~sessions[sid].active => sessions' = sessions
                 /\ last'.did \in {"no_conversation", "ok", "fail", "malformed"}
                 /\ IF last'.did \in {"no_conversation", "ok"}
                    THEN /\ response'.status = 200
                         /\ response'.transcript = sessions[sid].transcript
                    ELSE response' = ServerError(sid)]_vars

\* a finalize call on a session whose handler had already returned (so it
\* was inactive before the call) has just been answered with a summary
C28_Witness ==
    /\ last.did = "ok"
    /\ response.status = 200
    /\ session_exists(response.sid)
    /\ ~sessions[response.sid].active
    /\ \E c \in Conns : conn[c].sid = response.sid /\ conn[c].hpc = "returned"
    /\ \A c \in Conns : conn[c].hpc \in {"idle", "returned"}
\* the ingestion loop of connection c has just taken a control message
\* of this kind
ControlStep(c, kind) == last' = Received(c, kind)

\* C29 as stated: a "stop" message sets `active` to false and ends the loop
\* without appending to audio_buffer; a well-formed control message of any
\* other type changes no session state and the loop keeps receiving.
C29_OtherTypeKeepsReceiving ==
    [][\A c \in Conns :
          LET sid == conn[c].sid IN
          /\ ControlStep(c, "stop")
                => /\ sessions' = [sessions EXCEPT ![sid].active = FALSE]
                   /\ conn'[c].hpc = "returned"
          /\ ControlStep(c, "other")
                => /\ sessions' = sessions
                   /\ conn'[c].hpc = "receive"]_vars

\* C29: a "stop" message sets `active` to false and ends the loop without
\* appending to audio_buffer; a well-formed control message of any other
\* type changes no session state, and the loop keeps receiving if the
\* session is still active (it ends if the session was deactivated while
\* the loop waited for the message).
C29_ControlMessages ==
    [][\A c \in Conns :
          LET sid == conn[c].sid IN
          /\ ControlStep(c, "stop")
                => /\ sessions' = [sessions EXCEPT ![sid].active = FALSE]
                   /\ conn'[c].hpc = "returned"
          /\ ControlStep(c, "other")
                => /\ sessions' = sessions
                   /\ conn'[c].hpc = IF sessions[sid].active THEN "receive"
                                                            ELSE "returned"]_vars

\* the loop of an active session with buffered audio took a control message
\* of another type and is receiving again
C29_Witness ==
    /\ last.did = "received"
    /\ last.kind = "other"
    /\ conn[last.h].hpc = "receive"
    /\ sessions[conn[last.h].sid].active
    /\ sessions[conn[last.h].sid].audio_buffer # <<>>
\* a connection handler of session s is between its accept and its return
HandlerRunning(s) ==
    \E c \in Conns : conn[c].sid = s /\ conn[c].hpc \notin {"idle", "returned"}

\* C30: a session is never orphaned in the active state: whenever no
\* connection handler is running for it (it was never connected, or every
\* handler has returned, normally or through a failure), its `active` flag
\* is false.
C30_NeverOrphanedActive ==
    \A s \in DOMAIN sessions : ~HandlerRunning(s) => ~sessions[s].active

\* a handler has returned through an exception, so that its task was not
\* cancelled and still sleeps, and the session it had activated is inactive
C30_Witness ==
    \E c \in Conns :
        /\ conn[c].hpc = "returned"
        /\ conn[c].tpc = "sleep"
        /\ session_exists(conn[c].sid)
        /\ ~HandlerRunning(conn[c].sid)
        /\ ~sessions[conn[c].sid].active
        /\ sessions[conn[c].sid].audio_buffer # <<>>
\* the steps of an analysis iteration after its transcription
LaterSteps == {"gate_closed", "suggest_failed", "suggestion_sent",
               "suggestion_send_failed", "audio_sent", "audio_send_failed",
               "tts_failed", "stamped"}

\* C31: audio_buffer has exactly two writers: it changes only by an
\* ingestion append (the received frame is added at the end) or by a drain
\* of the analysis cycle (reset to empty, the old contents detached); a new
\* session has an empty buffer; finalize, the registry lookups of a
\* connecting handler and every later step of an iteration leave it
\* unchanged.
C31_BufferHasTwoWriters ==
    [][\A s \in DOMAIN sessions' :
          IF s \notin DOMAIN sessions
          THEN sessions'[s].audio_buffer = <<>>
          ELSE LET b == sessions[s].audio_buffer
                   b1 == sessions'[s].audio_buffer
               IN
               /\ \/ b1 = b
                  \/ /\ nFrames' = nFrames + 1
                     /\ received'[s] # received[s]
                     /\ b1 = b \o <<received'[s][Len(received'[s])]>>
                  \/ /\ b1 = <<>>
                     /\ \E c \in Conns : WakeStep(c) /\ conn[c].sid = s
                     /\ detached'[s] = detached[s] \o b
               /\ \/ nFinish' # nFinish
                  \/ last'.did \in LaterSteps
                  \/ blocked' # NotBlocked
                  \/ \E c \in Conns : conn[c].hpc \in {"idle", "accepting"}
                                        /\ conn'[c] # conn[c]
                  => b1 = b]_vars

\* both writers have acted on a session: a chunk was drained and
\* transcribed, and a frame received since then is in the buffer
C31_Witness ==
    \E s \in DOMAIN sessions :
        /\ detached[s] # <<>>
        /\ sessions[s].audio_buffer # <<>>
        /\ sessions[s].transcript # <<>>
        /\ Len(received[s]) = Len(detached[s]) + Len(sessions[s].audio_buffer)
\* C32: at the end of every iteration of the analysis cycle, however it
\* ends (normally, by a failed send, or by cancellation),
\* conversation_history has as many entries as the transcript has user
\* entries, with the same texts in the same order.  A task that is sending
\* a transcript event is in the middle of its iteration.
C32_HistoryMatchesUserEntries ==
    \A s \in DOMAIN sessions :
        (\A c \in Conns : conn[c].sid = s => conn[c].tpc # "sent_transcript")
            => LET u == UserEntries(s)
                   h == sessions[s].conversation_history
               IN  /\ Len(h) = Len(u)
                   /\ \A i \in 1..Len(h) : h[i].content = u[i].text

\* C33: the transcript returned by finalize is final: once a finalize call
\* on a session has deactivated it, no step appends a user or coach entry
\* to the transcript of that session while it stays inactive, also when a
\* connection of the session was open at the time of the call.
C33_TranscriptFinalAfterFinalize ==
    [][\A s \in DOMAIN sessions :
          (/\ response.sid = s
           /\ response.status \in {200, 500}
           /\ ~sessions[s].active)
              => sessions'[s].transcript = sessions[s].transcript]_vars
====
